---- MODULE Spec2Model ----
(***************************************************************************)
(* The example database of hypothesis: the converter family               *)
(* (database/converter.py), Storage and ExampleDatabase                    *)
(* (database/__init__.py) and the SQLite backend (database/backend.py).    *)
(*                                                                         *)
(* Python objects are tagged records [t |-> type name, v |-> payload];     *)
(* a raised exception is the record [t |-> "raise", v |-> exception name]. *)
(* Descriptors are tagged records [kind |-> ..., of |-> ...].              *)
(***************************************************************************)
EXTENDS Integers, Sequences, FiniteSets, TLC

VARIABLES
    table,          \* SQLiteBackend: rows of hypothesis_data_mapping, in rowid order
    db_created,     \* SQLiteBackend.db_created
    storage_cache,  \* ExampleDatabase.storage_cache: sequence of [key, value] entries
    storages,       \* every Storage object constructed so far (its index is its identity)
    last,           \* the outcome of the last call
    pc,             \* ConcSpec: each caller's position inside storage_for
    local,          \* ConcSpec: each caller's local variables
    conv,           \* ConvSpec: one converter's pipeline
    settled         \* ConcSpec (history): per key, the Storage cached when its calls had all returned

vars == <<table, db_created, storage_cache, storages, last, pc, local, conv, settled>>

---------------------------------------------------------------------------
\* Bounds of the model.
MaxInt == 2
MaxRows == 2
MaxLen == 2
NumCallers == 2

---------------------------------------------------------------------------
\* Python objects.
PyInt(n) == [t |-> "int", v |-> n]
PyStr(s) == [t |-> "str", v |-> s]
PyNone == [t |-> "none", v |-> 0]
PyList(s) == [t |-> "list", v |-> s]
PyTuple(s) == [t |-> "tuple", v |-> s]
\* a set object: its elements in iteration order, without repetition
PySet(s) == [t |-> "set", v |-> s]
\* a dict object: its items <<key, value>> in iteration order, keys distinct
PyDict(s) == [t |-> "dict", v |-> s]
\* an instance of a user class K whose __repr__ is the constant "K()";
\* instances compare by identity
PyObj(i) == [t |-> "K", v |-> i]
Raise(e) == [t |-> "raise", v |-> e]
IsRaise(x) == x.t = "raise"

Range(s) == {s[i] : i \in DOMAIN s}
Min(a, b) == IF a < b THEN a ELSE b

\* The first exception raised while the elements of r were computed in order,
\* else ok.
FirstRaiseOr(r, ok) ==
    IF \E i \in DOMAIN r : IsRaise(r[i])
    THEN r[CHOOSE i \in DOMAIN r : IsRaise(r[i]) /\ \A j \in 1..(i - 1) : ~IsRaise(r[j])]
    ELSE ok

RECURSIVE PyEq(_, _)
\* Python's ==
PyEq(a, b) ==
    IF a.t # b.t THEN FALSE
    ELSE CASE a.t \in {"list", "tuple"} ->
                Len(a.v) = Len(b.v) /\ \A i \in DOMAIN a.v : PyEq(a.v[i], b.v[i])
           [] a.t = "set" -> Range(a.v) = Range(b.v)
           [] a.t = "dict" ->
                /\ {it[1] : it \in Range(a.v)} = {it[1] : it \in Range(b.v)}
                /\ \A x \in Range(a.v) : \A y \in Range(b.v) :
                       x[1] = y[1] => PyEq(x[2], y[2])
           [] OTHER -> a = b

RECURSIVE Hashable(_)
Hashable(v) ==
    CASE v.t \in {"list", "set", "dict"} -> FALSE
      [] v.t = "tuple" -> \A i \in DOMAIN v.v : Hashable(v.v[i])
      [] OTHER -> TRUE

\* iter(v): whether v can be iterated, and the items it yields
Iterable(v) == v.t \in {"list", "tuple", "set", "dict", "str"}
Items(v) ==
    CASE v.t \in {"list", "tuple", "set"} -> v.v
      [] v.t = "dict" -> [i \in DOMAIN v.v |-> v.v[i][1]]
      [] v.t = "str" -> <<v>>      \* every str of the model is one character

\* seq[i] for a Python int i: negative indices count from the end
Subscript(seq, i) ==
    IF i.t # "int" THEN Raise("TypeError")
    ELSE IF i.v >= 0 /\ i.v < Len(seq) THEN seq[i.v + 1]
    ELSE IF i.v < 0 /\ -i.v <= Len(seq) THEN seq[Len(seq) + i.v + 1]
    ELSE Raise("IndexError")

\* value[k]
GetItem(value, k) ==
    CASE value.t = "dict" ->
            IF \E it \in Range(value.v) : it[1] = k
            THEN (CHOOSE it \in Range(value.v) : it[1] = k)[2]
            ELSE Raise("KeyError")
      [] value.t \in {"list", "tuple"} -> Subscript(value.v, k)
      [] value.t = "str" -> Subscript(<<value>>, k)
      [] OTHER -> Raise("TypeError")

\* the elements of s without repetition, first occurrences kept
Dedupe(s) ==
    LET keep == {i \in DOMAIN s : \A j \in 1..(i - 1) : s[j] # s[i]}
        pos(n) == CHOOSE i \in keep : Cardinality({j \in keep : j < i}) = n - 1
    IN [n \in 1..Cardinality(keep) |-> s[pos(n)]]

---------------------------------------------------------------------------
\* Descriptors.
DType(name) == [kind |-> "type", of |-> name]
\* a list descriptor [d1, ..., dn]
DList(ds) == [kind |-> "list", of |-> ds]
DTuple(ds) == [kind |-> "tuple", of |-> ds]
\* a set descriptor {d1, ..., dn}, elements in iteration order
DSet(ds) == [kind |-> "set", of |-> ds]
\* a dict descriptor {k1: d1, ...}: its items <<key, descriptor>> in iteration order
DDict(its) == [kind |-> "dict", of |-> its]
DOneOf(ds) == [kind |-> "OneOf", of |-> ds]
DSampledFrom(vs) == [kind |-> "SampledFrom", of |-> vs]
DJust(value) == [kind |-> "Just", of |-> value]

\* hypothesis.descriptors.one_of: the union of the descriptors; one descriptor
\* alone is its own union
one_of(ds) == IF Len(ds) = 1 THEN ds[1] ELSE DOneOf(ds)

RECURSIVE could_have_produced(_, _)
\* The strategy of descriptor d: whether value is a legal instance of d's shape.
could_have_produced(d, value) ==
    CASE d.kind = "type" -> value.t = d.of
      [] d.kind = "list" ->
            /\ value.t = "list"
            /\ \A i \in DOMAIN value.v :
                   \E j \in DOMAIN d.of : could_have_produced(d.of[j], value.v[i])
      [] d.kind = "set" ->
            /\ value.t = "set"
            /\ \A i \in DOMAIN value.v :
                   \E j \in DOMAIN d.of : could_have_produced(d.of[j], value.v[i])
      [] d.kind = "tuple" ->
            /\ value.t = "tuple"
            /\ Len(value.v) = Len(d.of)
            /\ \A i \in DOMAIN d.of : could_have_produced(d.of[i], value.v[i])
      [] d.kind = "dict" ->
            /\ value.t = "dict"
            /\ {it[1] : it \in Range(value.v)} = {it[1] : it \in Range(d.of)}
            /\ \A x \in Range(d.of) : \A y \in Range(value.v) :
                   x[1] = y[1] => could_have_produced(x[2], y[2])
      [] d.kind = "OneOf" ->
            \E j \in DOMAIN d.of : could_have_produced(d.of[j], value)
      [] d.kind = "SampledFrom" -> \E j \in DOMAIN d.of : PyEq(d.of[j], value)
      [] d.kind = "Just" -> PyEq(d.of, value)

---------------------------------------------------------------------------
\* sorted(keys, key=lambda t: (t.__class__.__name__, repr(t)))

\* t.__class__.__name__
ClassName(k) == k.t
\* repr(t) for the key types of the model
Repr(k) ==
    CASE k.t = "str" -> "'" \o k.v \o "'"
      [] k.t = "int" -> ToString(k.v)
      [] k.t = "K" -> "K()"

\* Python's order of str, on the class names and reprs of the model's keys:
\* the strings in ascending order of their code points
StrOrder == <<"'a'", "'b'", "0", "1", "2", "3", "K", "K()", "int", "str">>
StrLess(a, b) ==
    (CHOOSE i \in DOMAIN StrOrder : StrOrder[i] = a)
        < (CHOOSE i \in DOMAIN StrOrder : StrOrder[i] = b)
SortKeyLess(k1, k2) ==
    \/ StrLess(ClassName(k1), ClassName(k2))
    \/ ClassName(k1) = ClassName(k2) /\ StrLess(Repr(k1), Repr(k2))

\* sorted() is stable: elements with equal sort keys keep their input order
Sorted(keys) ==
    LET before(i, j) == \/ SortKeyLess(keys[i], keys[j])
                        \/ ~SortKeyLess(keys[j], keys[i]) /\ i < j
        rank(i) == Cardinality({j \in DOMAIN keys : before(j, i)}) + 1
    IN [n \in DOMAIN keys |-> keys[CHOOSE i \in DOMAIN keys : rank(i) = n]]

---------------------------------------------------------------------------
\* Converters: records [c |-> class, p |-> constructor arguments].
GenericConverter == [c |-> "Generic", p |-> <<>>]
ListConverter(child_format) == [c |-> "List", p |-> child_format]
CollectionConverter(list_format, collection_type) ==
    [c |-> "Collection", p |-> [list_format |-> list_format,
                                collection_type |-> collection_type]]
TupleConverter(tuple_formats) == [c |-> "Tuple", p |-> tuple_formats]
JustConverter(value) == [c |-> "Just", p |-> value]
SampledFromConverter(choices) == [c |-> "SampledFrom", p |-> choices]
OneOfConverter(formats, strategies) ==
    [c |-> "OneOf", p |-> [formats |-> formats, strategies |-> strategies]]

\* FixedKeyDictConverter.__init__: dict_of_formats as its items in iteration order
FixedKeyDictConverter(dict_of_formats) ==
    LET keys == Sorted([i \in DOMAIN dict_of_formats |-> dict_of_formats[i][1]])
        fmt(k) == (CHOOSE it \in Range(dict_of_formats) : it[1] = k)[2]
    IN [c |-> "FixedKeyDict", p |-> [i \in DOMAIN keys |-> <<keys[i], fmt(keys[i])>>]]

RECURSIVE specification_for(_)
\* ConverterTable.default().specification_for(descriptor)
specification_for(d) ==
    CASE d.kind = "list" ->
            LET element_format == specification_for(one_of(d.of))
            IN IF element_format = GenericConverter THEN GenericConverter
               ELSE ListConverter(element_format)
      [] d.kind = "set" ->
            CollectionConverter(specification_for(DList(d.of)), "set")
      [] d.kind = "tuple" ->
            TupleConverter([i \in DOMAIN d.of |-> specification_for(d.of[i])])
      [] d.kind = "dict" ->
            FixedKeyDictConverter(
                [i \in DOMAIN d.of |-> <<d.of[i][1], specification_for(d.of[i][2])>>])
      [] d.kind = "OneOf" ->
            OneOfConverter([i \in DOMAIN d.of |-> specification_for(d.of[i])], d.of)
      [] d.kind = "SampledFrom" -> SampledFromConverter(d.of)
      [] d.kind = "Just" -> JustConverter(d.of)
      [] OTHER -> GenericConverter

---------------------------------------------------------------------------
\* to_json and from_json of each converter class. self is the converter's
\* constructor arguments.
RECURSIVE to_json(_, _)
RECURSIVE from_json(_, _)

\* zip(formats, value): the pairs up to the shorter of the two
Zip(formats, items) ==
    [i \in 1..Min(Len(formats), Len(items)) |-> <<formats[i], items[i]>>]

GenericConverter_to_json(value) == value
GenericConverter_from_json(value) == value

ListConverter_to_json(child_format, value) ==
    IF ~Iterable(value) THEN Raise("TypeError")
    ELSE LET r == [i \in DOMAIN Items(value) |-> to_json(child_format, Items(value)[i])]
         IN FirstRaiseOr(r, PyList(r))

ListConverter_from_json(child_format, value) ==
    IF ~Iterable(value) THEN Raise("TypeError")
    ELSE LET r == [i \in DOMAIN Items(value) |-> from_json(child_format, Items(value)[i])]
         IN FirstRaiseOr(r, PyList(r))

CollectionConverter_to_json(self, value) ==
    IF ~Iterable(value) THEN Raise("TypeError")
    ELSE to_json(self.list_format, PyList(Items(value)))

\* self.collection_type is set
CollectionConverter_from_json(self, value) ==
    LET r == from_json(self.list_format, value)
    IN IF IsRaise(r) THEN r
       ELSE IF ~Iterable(r) THEN Raise("TypeError")
       ELSE IF \E i \in DOMAIN Items(r) : ~Hashable(Items(r)[i]) THEN Raise("TypeError")
       ELSE PySet(Dedupe(Items(r)))

JustConverter_to_json(self, c) == PyNone

JustConverter_from_json(self, c) ==
    IF c # PyNone THEN Raise("AssertionError") ELSE self

TupleConverter_to_json(tuple_formats, value) ==
    IF Len(tuple_formats) = 1
    THEN LET x == GetItem(value, PyInt(0))
         IN IF IsRaise(x) THEN x ELSE to_json(tuple_formats[1], x)
    ELSE IF ~Iterable(value) THEN Raise("TypeError")
    ELSE LET z == Zip(tuple_formats, Items(value))
             r == [i \in DOMAIN z |-> to_json(z[i][1], z[i][2])]
         IN FirstRaiseOr(r, PyList(r))

\* from_json without the case of one format
TupleConverter_from_json_no_singleton(tuple_formats, value) ==
    IF ~Iterable(value) THEN Raise("TypeError")
    ELSE LET z == Zip(tuple_formats, Items(value))
             r == [i \in DOMAIN z |-> from_json(z[i][1], z[i][2])]
         IN FirstRaiseOr(r, PyTuple(r))

TupleConverter_from_json(tuple_formats, value) ==
    IF Len(tuple_formats) = 1
    THEN LET x == from_json(tuple_formats[1], value)
         IN IF IsRaise(x) THEN x ELSE PyTuple(<<x>>)
    ELSE IF ~Iterable(value) THEN Raise("TypeError")
    ELSE LET z == Zip(tuple_formats, Items(value))
             r == [i \in DOMAIN z |-> from_json(z[i][1], z[i][2])]
         IN FirstRaiseOr(r, PyTuple(r))

\* formats: the pairs <<key, format>> in canonical key order
FixedKeyDictConverter_to_json(formats, value) ==
    LET r == [i \in DOMAIN formats |->
                 LET x == GetItem(value, formats[i][1])
                 IN IF IsRaise(x) THEN x ELSE to_json(formats[i][2], x)]
    IN FirstRaiseOr(r, PyList(r))

FixedKeyDictConverter_from_json(formats, value) ==
    IF ~Iterable(value) THEN Raise("TypeError")
    ELSE LET z == Zip(formats, Items(value))
             r == [i \in DOMAIN z |-> from_json(z[i][1][2], z[i][2])]
         IN FirstRaiseOr(r, PyDict([i \in DOMAIN z |-> <<z[i][1][1], r[i]>>]))

\* to_json that tags with the last strategy that accepts the value
OneOfConverter_to_json_last_match(self, value) ==
    LET hits == {i \in DOMAIN self.formats :
                     could_have_produced(self.strategies[i], value)}
    IN IF hits = {} THEN PyNone
       ELSE LET i == CHOOSE h \in hits : \A g \in hits : h >= g
                x == to_json(self.formats[i], value)
            IN IF IsRaise(x) THEN x ELSE PyList(<<PyInt(i - 1), x>>)

\* a loop that finds no strategy falls off the end: the method returns None
OneOfConverter_to_json(self, value) ==
    LET hits == {i \in DOMAIN self.formats :
                     could_have_produced(self.strategies[i], value)}
    IN IF hits = {} THEN PyNone
       ELSE LET i == CHOOSE h \in hits : \A g \in hits : h <= g
                x == to_json(self.formats[i], value)
            IN IF IsRaise(x) THEN x ELSE PyList(<<PyInt(i - 1), x>>)

\* i, x = value; return self.formats[i].from_json(x)
OneOfConverter_from_json(self, value) ==
    IF ~Iterable(value) THEN Raise("TypeError")
    ELSE IF Len(Items(value)) # 2 THEN Raise("ValueError")
    ELSE LET i == Items(value)[1]
             x == Items(value)[2]
             n == Len(self.formats)
         IN IF i.t # "int" THEN Raise("TypeError")
            ELSE IF i.v >= n \/ i.v < -n THEN Raise("IndexError")
            ELSE from_json(self.formats[IF i.v >= 0 THEN i.v + 1 ELSE n + i.v + 1], x)

\* an index search that answers -1 for a value that is absent
SampledFromConverter_to_json_find(choices, value) ==
    LET hits == {i \in DOMAIN choices : PyEq(choices[i], value)}
    IN IF hits = {} THEN PyInt(0 - 1)
       ELSE PyInt((CHOOSE h \in hits : \A g \in hits : h <= g) - 1)

\* self.choices.index(value)
SampledFromConverter_to_json(choices, value) ==
    LET hits == {i \in DOMAIN choices : PyEq(choices[i], value)}
    IN IF hits = {} THEN Raise("ValueError")
       ELSE PyInt((CHOOSE h \in hits : \A g \in hits : h <= g) - 1)

\* self.choices[value]
SampledFromConverter_from_json(choices, value) == Subscript(choices, value)

to_json(converter, value) ==
    CASE converter.c = "Generic" -> GenericConverter_to_json(value)
      [] converter.c = "List" -> ListConverter_to_json(converter.p, value)
      [] converter.c = "Collection" -> CollectionConverter_to_json(converter.p, value)
      [] converter.c = "Just" -> JustConverter_to_json(converter.p, value)
      [] converter.c = "Tuple" -> TupleConverter_to_json(converter.p, value)
      [] converter.c = "FixedKeyDict" -> FixedKeyDictConverter_to_json(converter.p, value)
      [] converter.c = "OneOf" -> OneOfConverter_to_json(converter.p, value)
      [] converter.c = "SampledFrom" -> SampledFromConverter_to_json(converter.p, value)

from_json(converter, value) ==
    CASE converter.c = "Generic" -> GenericConverter_from_json(value)
      [] converter.c = "List" -> ListConverter_from_json(converter.p, value)
      [] converter.c = "Collection" -> CollectionConverter_from_json(converter.p, value)
      [] converter.c = "Just" -> JustConverter_from_json(converter.p, value)
      [] converter.c = "Tuple" -> TupleConverter_from_json(converter.p, value)
      [] converter.c = "FixedKeyDict" -> FixedKeyDictConverter_from_json(converter.p, value)
      [] converter.c = "OneOf" -> OneOfConverter_from_json(converter.p, value)
      [] converter.c = "SampledFrom" -> SampledFromConverter_from_json(converter.p, value)

---------------------------------------------------------------------------
\* json.dumps and json.loads. A text is the sequence of its lexemes.
Text(tokens) == [t |-> "text", v |-> tokens]
Quote(s) == "\"" \o s \o "\""
StrValues == {"a", "b", "x", "y", "z"}
\* the ints a text of the model can hold
JsonInts == (0 - 1)..(MaxInt + 1)

RECURSIVE json_dumps(_)
\* json.dumps(obj): tuples are written as arrays; a set, or an instance of a
\* user class, is not JSON serializable
json_dumps(obj) ==
    CASE obj.t = "int" -> Text(<<ToString(obj.v)>>)
      [] obj.t = "str" -> Text(<<Quote(obj.v)>>)
      [] obj.t = "none" -> Text(<<"null">>)
      [] obj.t \in {"list", "tuple"} ->
            LET r == [i \in DOMAIN obj.v |-> json_dumps(obj.v[i])]
                sep(i) == IF i = 1 THEN <<>> ELSE <<",">>
                join[i \in 0..Len(r)] ==
                    IF i = 0 THEN <<>> ELSE join[i - 1] \o sep(i) \o r[i].v
            IN FirstRaiseOr(r, Text(<<"[">> \o join[Len(r)] \o <<"]">>))
      [] OTHER -> Raise("TypeError")

\* A parse result: the value read (or the error raised) and the position after it.
Parsed(val, next) == [val |-> val, next |-> next]
ParseError == Parsed(Raise("ValueError"), 0)

RECURSIVE ParseValue(_, _)
RECURSIVE ParseElements(_, _, _)
\* the JSON value that starts at toks[i]
ParseValue(toks, i) ==
    IF i > Len(toks) THEN ParseError
    ELSE LET tok == toks[i]
         IN CASE tok = "null" -> Parsed(PyNone, i + 1)
              [] \E n \in JsonInts : ToString(n) = tok ->
                    Parsed(PyInt(CHOOSE n \in JsonInts : ToString(n) = tok), i + 1)
              [] \E q \in StrValues : Quote(q) = tok ->
                    Parsed(PyStr(CHOOSE q \in StrValues : Quote(q) = tok), i + 1)
              [] tok = "[" ->
                    IF i + 1 <= Len(toks) /\ toks[i + 1] = "]"
                    THEN Parsed(PyList(<<>>), i + 2)
                    ELSE ParseElements(toks, i + 1, <<>>)
              [] OTHER -> ParseError

\* the rest of an array whose elements so far are acc, from toks[i]
ParseElements(toks, i, acc) ==
    LET e == ParseValue(toks, i)
    IN IF IsRaise(e.val) \/ e.next > Len(toks) THEN ParseError
       ELSE IF toks[e.next] = "]" THEN Parsed(PyList(Append(acc, e.val)), e.next + 1)
       ELSE IF toks[e.next] = "," THEN ParseElements(toks, e.next + 1, Append(acc, e.val))
       ELSE ParseError

\* json.loads(text): arrays are read as lists; text after the value is an error
json_loads(text) ==
    LET e == ParseValue(text.v, 1)
    IN IF IsRaise(e.val) \/ e.next # Len(text.v) + 1 THEN Raise("ValueError") ELSE e.val

---------------------------------------------------------------------------
\* Descriptor keys.
RECURSIVE Canonical(_)
\* The structure of a descriptor, free of the iteration order of its sets and
\* dicts: structurally equal descriptors have the same canonical structure.
Canonical(d) ==
    CASE d.kind \in {"list", "tuple", "OneOf"} ->
            [kind |-> d.kind, of |-> [i \in DOMAIN d.of |-> Canonical(d.of[i])]]
      [] d.kind = "set" ->
            [kind |-> d.kind, of |-> {Canonical(x) : x \in Range(d.of)}]
      [] d.kind = "dict" ->
            [kind |-> d.kind, of |-> {<<it[1], Canonical(it[2])>> : it \in Range(d.of)}]
      [] OTHER -> d

\* hypothesis.searchstrategy.nice_string: the canonical rendering of a descriptor
nice_string(descriptor) == Canonical(descriptor)
\* HashItAnyway(descriptor): equal, and of equal hash, for structurally equal
\* descriptors
HashItAnyway(descriptor) == Canonical(descriptor)

---------------------------------------------------------------------------
\* SQLiteBackend: one table of rows <<key, value>> with unique(key, value).

\* the insert without the unique(key, value) constraint
SQLiteBackend_save_no_unique(rows, key, value) == Append(rows, <<key, value>>)

\* insert into hypothesis_data_mapping(key, value): a row that is already there
\* violates the constraint, and the IntegrityError is swallowed
SQLiteBackend_save(rows, key, value) ==
    IF \E i \in DOMAIN rows : rows[i] = <<key, value>> THEN rows
    ELSE Append(rows, <<key, value>>)

\* select value from hypothesis_data_mapping where key = ?, in rowid order
SQLiteBackend_fetch(rows, key) ==
    LET hit == {i \in DOMAIN rows : rows[i][1] = key}
        pos(n) == CHOOSE i \in hit : Cardinality({j \in hit : j < i}) = n - 1
    IN [n \in 1..Cardinality(hit) |-> rows[pos(n)][2]]

\* The orders in which a select without "order by" may return these values.
Orders(values) ==
    {o \in [DOMAIN values -> DOMAIN values] :
        \A i, j \in DOMAIN values : i # j => o[i] # o[j]}

---------------------------------------------------------------------------
\* Storage.
Storage(backend, descriptor, converter, strategy) ==
    [descriptor |-> descriptor, converter |-> converter, strategy |-> strategy,
     key |-> nice_string(descriptor)]

\* save that writes before it validates
Storage_save_write_first(self, rows, value) ==
    LET converted == to_json(self.converter, value)
        serialized == IF IsRaise(converted) THEN converted ELSE json_dumps(converted)
        written == IF IsRaise(serialized) THEN rows
                   ELSE SQLiteBackend_save(rows, self.key, serialized)
    IN IF ~could_have_produced(self.strategy, value)
       THEN [raised |-> "ValueError", rows |-> written]
       ELSE [raised |-> IF IsRaise(serialized) THEN serialized.v ELSE "", rows |-> written]

\* Storage.save(value): the exception raised ("" when none) and the table after
Storage_save(self, rows, value) ==
    IF ~could_have_produced(self.strategy, value)
    THEN [raised |-> "ValueError", rows |-> rows]
    ELSE LET converted == to_json(self.converter, value)
             serialized == IF IsRaise(converted) THEN converted ELSE json_dumps(converted)
         IN IF IsRaise(serialized) THEN [raised |-> serialized.v, rows |-> rows]
            ELSE [raised |-> "", rows |-> SQLiteBackend_save(rows, self.key, serialized)]

\* One pass of the loop of Storage.fetch over a stored value: the value
\* yielded, or the exception raised.
Storage_fetch_item(self, value) ==
    LET loaded == json_loads(value)
        deserialized == IF IsRaise(loaded) THEN loaded
                        ELSE from_json(self.converter, loaded)
    IN IF IsRaise(deserialized) THEN deserialized
       ELSE IF ~could_have_produced(self.strategy, deserialized) THEN Raise("ValueError")
       ELSE deserialized

\* fetch that skips a bad record and goes on
Storage_fetch_skipping(self, values) ==
    LET r == [i \in DOMAIN values |-> Storage_fetch_item(self, values[i])]
        good == {i \in DOMAIN r : ~IsRaise(r[i])}
        pos(n) == CHOOSE i \in good : Cardinality({j \in good : j < i}) = n - 1
    IN [yielded |-> [n \in 1..Cardinality(good) |-> r[pos(n)]], raised |-> ""]

\* Storage.fetch() consumed to its end over the values the backend returns:
\* the values yielded and the exception that ended it ("" when none).
Storage_fetch(self, values) ==
    LET r == [i \in DOMAIN values |-> Storage_fetch_item(self, values[i])]
        bad == {i \in DOMAIN r : IsRaise(r[i])}
        stop == IF bad = {} THEN Len(r) + 1 ELSE CHOOSE i \in bad : \A j \in bad : i <= j
    IN [yielded |-> SubSeq(r, 1, stop - 1),
        raised |-> IF bad = {} THEN "" ELSE r[stop].v]

---------------------------------------------------------------------------
\* ExampleDatabase.storage_cache: a dict, as its entries in insertion order.
CacheHas(cache, key) == \E i \in DOMAIN cache : cache[i].key = key
CacheGet(cache, key) == (CHOOSE e \in Range(cache) : e.key = key).value
\* cache[key] = value
CachePut(cache, key, value) ==
    IF CacheHas(cache, key)
    THEN [i \in DOMAIN cache |->
             IF cache[i].key = key THEN [key |-> key, value |-> value] ELSE cache[i]]
    ELSE Append(cache, [key |-> key, value |-> value])

\* The Storage that storage_for constructs on a cache miss.
NewStorage(descriptor) ==
    Storage("backend", descriptor, specification_for(descriptor), descriptor)

\* a lookup that never finds the key
storage_for_try_miss(cache, key) == 0

\* try: return self.storage_cache[key]  -- the Storage cached, 0 for a KeyError
storage_for_try(cache, key) == IF CacheHas(cache, key) THEN CacheGet(cache, key) ELSE 0

\* storage_for that never stores what it constructs
storage_for_uncached(cache, objects, descriptor) ==
    LET key == HashItAnyway(descriptor)
        hit == storage_for_try(cache, key)
    IN IF hit # 0
       THEN [cache |-> cache, objects |-> objects, result |-> hit]
       ELSE [cache |-> cache,
             objects |-> Append(objects, NewStorage(descriptor)),
             result |-> Len(objects) + 1]

\* ExampleDatabase.storage_for(descriptor), run without interruption: the
\* cache, the Storage objects and the Storage returned (by its identity).
storage_for(cache, objects, descriptor) ==
    LET key == HashItAnyway(descriptor)
        hit == storage_for_try(cache, key)
    IN IF hit # 0
       THEN [cache |-> cache, objects |-> objects, result |-> hit]
       ELSE [cache |-> CachePut(cache, key, Len(objects) + 1),
             objects |-> Append(objects, NewStorage(descriptor)),
             result |-> Len(objects) + 1]

---------------------------------------------------------------------------
\* The descriptors, values and stored texts the database is driven with.
IntDescriptor == DType("int")
PairDescriptor == DTuple(<<IntDescriptor, IntDescriptor>>)
\* one record shape, written with its keys in either order
RecordDescriptorAB == DDict(<< <<PyStr("a"), IntDescriptor>>, <<PyStr("b"), IntDescriptor>> >>)
RecordDescriptorBA == DDict(<< <<PyStr("b"), IntDescriptor>>, <<PyStr("a"), IntDescriptor>> >>)
DbDescriptors == {PairDescriptor, RecordDescriptorAB, RecordDescriptorBA}

DbValues ==
    {PyTuple(<<PyInt(0), PyInt(1)>>), PyTuple(<<PyInt(1), PyInt(0)>>),
     PyTuple(<<PyInt(0)>>),
     PyDict(<< <<PyStr("a"), PyInt(0)>>, <<PyStr("b"), PyInt(1)>> >>),
     PyDict(<< <<PyStr("b"), PyInt(1)>>, <<PyStr("a"), PyInt(0)>> >>)}

\* Texts another writer of the same table may have stored: arrays of another
\* arity and an element of another type.
ForeignTexts ==
    {Text(<<"[", "0", ",", "1", ",", "2", "]">>), Text(<<"[", "0", "]">>),
     Text(<<"[", "0", ",", Quote("x"), "]">>)}

NoLast ==
    [op |-> "none", storage |-> 0, descriptor |-> IntDescriptor, value |-> PyNone, raised |-> "",
     texts |-> <<>>, yielded |-> <<>>, before |-> <<>>]

Init ==
    /\ table = <<>>
    /\ db_created = FALSE
    /\ storage_cache = <<>>
    /\ storages = <<>>
    /\ last = NoLast
    /\ pc = <<>>
    /\ local = <<>>
    /\ conv = <<>>
    /\ settled = <<>>

\* database.storage_for(descriptor)
StorageFor(descriptor) ==
    LET r == storage_for(storage_cache, storages, descriptor)
    IN /\ storage_cache' = r.cache
       /\ storages' = r.objects
       /\ last' = [NoLast EXCEPT !.op = "storage_for", !.storage = r.result,
                                 !.descriptor = descriptor, !.before = table]
       /\ UNCHANGED <<table, db_created, pc, local, conv, settled>>

\* storage.save(value)
Save(s, value) ==
    LET r == Storage_save(storages[s], table, value)
    IN /\ Len(r.rows) <= MaxRows
       /\ table' = r.rows
       /\ db_created' = (db_created \/ r.raised = "")
       /\ last' = [NoLast EXCEPT !.op = "save", !.storage = s, !.value = value,
                                 !.raised = r.raised, !.before = table]
       /\ UNCHANGED <<storage_cache, storages, pc, local, conv, settled>>

\* list(storage.fetch()): the backend returns the stored values in some order
Fetch(s) ==
    LET values == SQLiteBackend_fetch(table, storages[s].key)
    IN \E o \in Orders(values) :
          LET texts == [i \in DOMAIN values |-> values[o[i]]]
              r == Storage_fetch(storages[s], texts)
          IN /\ db_created' = TRUE
             /\ last' = [NoLast EXCEPT !.op = "fetch", !.storage = s, !.raised = r.raised,
                                       !.texts = texts, !.yielded = r.yielded,
                                       !.before = table]
             /\ UNCHANGED <<table, storage_cache, storages, pc, local, conv, settled>>

\* backend.save(key, value) by another writer of the same table
ForeignSave(key, value) ==
    /\ Len(table) < MaxRows
    /\ table' = SQLiteBackend_save(table, key, value)
    /\ db_created' = TRUE
    /\ last' = [NoLast EXCEPT !.op = "backend.save", !.before = table]
    /\ UNCHANGED <<storage_cache, storages, pc, local, conv, settled>>

Next ==
    \/ \E d \in DbDescriptors : StorageFor(d)
    \/ \E s \in DOMAIN storages : \E v \in DbValues : Save(s, v)
    \/ \E s \in DOMAIN storages : Fetch(s)
    \/ \E d \in DbDescriptors : \E x \in ForeignTexts : ForeignSave(nice_string(d), x)

Spec == Init /\ [][Next]_vars

---------------------------------------------------------------------------
\* Claims about Storage, ExampleDatabase and the backend, under Spec.

LastStorage == storages[last.storage]
DbKeys == {nice_string(d) : d \in DbDescriptors}
NoRepeat(s) == \A i, j \in DOMAIN s : i # j => s[i] # s[j]

\* C1: a save of a value the validator rejects raises the validation error and
\* leaves what the backend returns for every key as it was before the call.
C1_RejectedSaveLeavesBackend ==
    (last.op = "save" /\ ~could_have_produced(LastStorage.strategy, last.value)) =>
        /\ last.raised = "ValueError"
        /\ \A k \in DbKeys : SQLiteBackend_fetch(table, k) = SQLiteBackend_fetch(last.before, k)

C1_Witness ==
    /\ last.op = "save"
    /\ ~could_have_produced(LastStorage.strategy, last.value)
    /\ last.raised = "ValueError"
    /\ Len(last.before) = MaxRows

\* C2: the backend returns each text stored under a key once; a save that
\* succeeds leaves its text stored exactly once under the storage's key, and
\* when that text was already stored the save changes nothing; a fetch that
\* ends without an error yields one value for each stored text.
C2_Deduplication ==
    /\ \A k \in DbKeys : NoRepeat(SQLiteBackend_fetch(table, k))
    /\ (last.op = "save" /\ last.raised = "") =>
          LET text == json_dumps(to_json(LastStorage.converter, last.value))
              stored(rows) == {i \in DOMAIN rows : rows[i] = <<LastStorage.key, text>>}
          IN /\ Cardinality(stored(table)) = 1
             /\ stored(last.before) # {} => table = last.before
    /\ last.op = "fetch" =>
          /\ NoRepeat(last.texts)
          /\ Range(last.texts) = Range(SQLiteBackend_fetch(table, LastStorage.key))
          /\ last.raised = "" => Len(last.yielded) = Len(last.texts)

\* a second save of a value already stored, after which one record is there
C2_Witness ==
    /\ last.op = "save"
    /\ last.raised = ""
    /\ table = last.before
    /\ Len(SQLiteBackend_fetch(table, LastStorage.key)) = 1

\* What decoding a stored text gives, before validation.
Decoded(self, text) ==
    IF IsRaise(json_loads(text)) THEN json_loads(text)
    ELSE from_json(self.converter, json_loads(text))
\* A stored text that fetch must not yield: it does not decode, or it decodes
\* to a value the validator rejects.
BadRecord(self, text) ==
    IsRaise(Decoded(self, text)) \/ ~could_have_produced(self.strategy, Decoded(self, text))

\* C3: fetch yields, in the backend's order, the decoded values of the records
\* before the first bad one, each accepted by the validator; at that record
\* it raises (the validation error when the record decodes) and yields
\* nothing after it.
C3_FetchAbortsAtBadRecord ==
    last.op = "fetch" =>
        LET bad == {i \in DOMAIN last.texts : BadRecord(LastStorage, last.texts[i])}
        IN /\ \A i \in DOMAIN last.yielded :
                  /\ could_have_produced(LastStorage.strategy, last.yielded[i])
                  /\ last.yielded[i] = Decoded(LastStorage, last.texts[i])
           /\ bad = {} => last.raised = "" /\ Len(last.yielded) = Len(last.texts)
           /\ \A i \in bad : (\A j \in bad : i <= j) =>
                  /\ Len(last.yielded) = i - 1
                  /\ last.raised # ""
                  /\ ~IsRaise(Decoded(LastStorage, last.texts[i])) => last.raised = "ValueError"

\* a fetch that met a record that decodes to a rejected value and left the
\* good record after it unread
C3_Witness ==
    /\ last.op = "fetch"
    /\ last.raised = "ValueError"
    /\ Len(last.texts) > Len(last.yielded) + 1
    /\ ~IsRaise(Decoded(LastStorage, last.texts[Len(last.yielded) + 1]))
    /\ ~BadRecord(LastStorage, last.texts[Len(last.texts)])

\* C4: one Storage is constructed for each structural key, storage_for returns
\* the Storage of its descriptor's structural key, and that Storage's backend
\* key is the key string of the descriptor passed.
C4_CacheIdentity ==
    /\ \A i, j \in DOMAIN storages :
           HashItAnyway(storages[i].descriptor) = HashItAnyway(storages[j].descriptor)
               => i = j
    /\ last.op = "storage_for" =>
           /\ last.storage \in DOMAIN storages
           /\ HashItAnyway(LastStorage.descriptor) = HashItAnyway(last.descriptor)
           /\ LastStorage.key = nice_string(last.descriptor)

\* storage_for returned the Storage constructed for another instance of the
\* same structure
C4_Witness ==
    /\ last.op = "storage_for"
    /\ last.storage \in DOMAIN storages
    /\ LastStorage.descriptor # last.descriptor
    /\ Len(storages) > 1

\* The number of elements of the array a stored text holds (0 - 1 when the
\* text is no array).
ArrayLen(text) ==
    IF IsRaise(json_loads(text)) \/ json_loads(text).t # "list" THEN 0 - 1
    ELSE Len(json_loads(text).v)

\* C9: a record whose array has another arity than the tuple or record
\* converter has positions is never decoded into a yielded value.
C9_WrongArityNotYielded ==
    last.op = "fetch" =>
        \A i \in DOMAIN last.yielded :
            ArrayLen(last.texts[i]) = Len(LastStorage.descriptor.of)

---------------------------------------------------------------------------
\* The converters alone: a descriptor's converter is built, then either a value
\* is encoded and the result decoded, or a stored JSON value is decoded.

SampleDescriptor == DSampledFrom(<<PyStr("x"), PyStr("y"), PyStr("z")>>)
RepeatedSampleDescriptor == DSampledFrom(<<PyStr("x"), PyStr("y"), PyStr("x")>>)
LowIntsDescriptor == DSampledFrom(<<PyInt(1), PyInt(2)>>)
\* unions whose alternatives overlap on 1 and 2 and encode them differently
OverlapDescriptor == DOneOf(<<LowIntsDescriptor, IntDescriptor>>)
OverlapReversedDescriptor == DOneOf(<<IntDescriptor, LowIntsDescriptor>>)
\* one record shape over two keys of class K, written in either order
KRecordDescriptor12 ==
    DDict(<< <<PyObj(1), IntDescriptor>>, <<PyObj(2), SampleDescriptor>> >>)
KRecordDescriptor21 ==
    DDict(<< <<PyObj(2), SampleDescriptor>>, <<PyObj(1), IntDescriptor>> >>)
NestedDescriptor ==
    DTuple(<<DTuple(<<LowIntsDescriptor>>),
             DList(<<IntDescriptor, SampleDescriptor>>),
             DDict(<< <<PyStr("b"), DJust(PyStr("z"))>>, <<PyStr("a"), OverlapDescriptor>> >>)>>)

ConvDescriptors ==
    {IntDescriptor, DList(<<IntDescriptor>>), DList(<<IntDescriptor, SampleDescriptor>>),
     DSet(<<IntDescriptor>>), DSet(<<DTuple(<<IntDescriptor>>)>>),
     DTuple(<<>>), DTuple(<<IntDescriptor>>), PairDescriptor,
     RecordDescriptorAB, RecordDescriptorBA, KRecordDescriptor12, KRecordDescriptor21,
     OverlapDescriptor, OverlapReversedDescriptor,
     DOneOf(<<PairDescriptor, DJust(PyStr("x"))>>),
     SampleDescriptor, RepeatedSampleDescriptor, LowIntsDescriptor,
     DJust(PyStr("x")), DJust(PyTuple(<<PyInt(0), PyInt(1)>>)),
     NestedDescriptor}

SeqsUpTo(S, n) == UNION {[1..k -> S] : k \in 0..n}

RECURSIVE Product(_, _)
\* the sequences of length n whose i-th element is drawn from sets[i]
Product(sets, n) ==
    IF n = 0 THEN {<<>>}
    ELSE {Append(q, x) : q \in Product(sets, n - 1), x \in sets[n]}

RECURSIVE Instances(_)
\* Values of descriptor d's shape to try: ints up to MaxInt, lists and sets up
\* to MaxLen elements, dicts in every order of their items.
Instances(d) ==
    LET elems == UNION {Instances(d.of[j]) : j \in DOMAIN d.of}
    IN CASE d.kind = "type" -> {PyInt(i) : i \in 0..MaxInt}
         [] d.kind = "list" -> {PyList(q) : q \in SeqsUpTo(elems, MaxLen)}
         [] d.kind = "set" -> {PySet(q) : q \in {x \in SeqsUpTo(elems, MaxLen) : NoRepeat(x)}}
         [] d.kind = "tuple" ->
               {PyTuple(q) : q \in Product([i \in DOMAIN d.of |-> Instances(d.of[i])],
                                           Len(d.of))}
         [] d.kind = "dict" ->
               {PyDict([i \in DOMAIN d.of |-> <<d.of[o[i]][1], x[o[i]]>>]) :
                    o \in Orders(d.of),
                    x \in Product([i \in DOMAIN d.of |-> Instances(d.of[i][2])], Len(d.of))}
         [] d.kind = "OneOf" -> elems
         [] d.kind = "SampledFrom" -> Range(d.of)
         [] d.kind = "Just" -> {d.of}

\* Values of no shape in particular, tried with every descriptor.
OtherValues ==
    {PyInt(0), PyInt(1), PyStr("a"), PyStr("y"), PyNone, PyObj(1),
     PyList(<<>>), PyList(<<PyInt(0), PyInt(1)>>), PyTuple(<<PyInt(0), PyInt(1), PyInt(2)>>),
     PySet(<<PyInt(0)>>), PyDict(<< <<PyStr("a"), PyInt(0)>> >>)}

\* JSON values a decoder may be handed.
JsonValues ==
    {PyInt(i) : i \in JsonInts} \cup {PyNone, PyStr("x")}
        \cup {PyList(q) : q \in SeqsUpTo({PyInt(0), PyInt(1), PyNone}, MaxLen)}
        \cup {PyList(<<PyInt(0), PyInt(1), PyInt(2)>>),
              PyList(<<PyInt(1), PyList(<<PyInt(0), PyInt(1)>>)>>)}

NoConv(origin, descriptor) ==
    [origin |-> origin, stage |-> "start", descriptor |-> descriptor,
     converter |-> specification_for(descriptor),
     value |-> PyNone, json |-> PyNone, back |-> PyNone]

ConvInit ==
    /\ table = <<>>
    /\ db_created = FALSE
    /\ storage_cache = <<>>
    /\ storages = <<>>
    /\ last = NoLast
    /\ pc = <<>>
    /\ local = <<>>
    /\ settled = <<>>
    /\ \E d \in ConvDescriptors :
          \/ \E v \in Instances(d) \cup OtherValues :
                conv = [NoConv("value", d) EXCEPT !.value = v]
          \/ \E j \in JsonValues :
                conv = [NoConv("stored", d) EXCEPT !.json = j]

\* converter.to_json(value)
Encode ==
    /\ conv.origin = "value"
    /\ conv.stage = "start"
    /\ conv' = [conv EXCEPT !.stage = "encoded", !.json = to_json(conv.converter, conv.value)]
    /\ UNCHANGED <<table, db_created, storage_cache, storages, last, pc, local, settled>>

\* converter.from_json(json)
Decode ==
    /\ \/ conv.origin = "value" /\ conv.stage = "encoded" /\ ~IsRaise(conv.json)
       \/ conv.origin = "stored" /\ conv.stage = "start"
    /\ conv' = [conv EXCEPT !.stage = "decoded", !.back = from_json(conv.converter, conv.json)]
    /\ UNCHANGED <<table, db_created, storage_cache, storages, last, pc, local, settled>>

ConvNext == Encode \/ Decode

ConvSpec == ConvInit /\ [][ConvNext]_vars

---------------------------------------------------------------------------
\* Claims about the converters, under ConvSpec.

Encoded == conv.origin = "value" /\ conv.stage \in {"encoded", "decoded"}
Accepted == conv.origin = "value" /\ could_have_produced(conv.descriptor, conv.value)
\* the alternatives of a union whose strategy accepts the value
Accepting(d, value) == {i \in DOMAIN d.of : could_have_produced(d.of[i], value)}
First(S) == CHOOSE i \in S : \A j \in S : i <= j

\* C5: a value its descriptor's validator accepts encodes without an error and
\* decodes to a value that the validator accepts and that is equal to it.
C5_RoundTrip ==
    Accepted =>
        /\ conv.stage # "start" => ~IsRaise(conv.json)
        /\ conv.stage = "decoded" =>
              /\ ~IsRaise(conv.back)
              /\ could_have_produced(conv.descriptor, conv.back)
              /\ PyEq(conv.back, conv.value)

\* a nesting of tuples (one of arity 1), a list of a union, a record, a
\* constant and enumerated choices, round-tripped
C5_Witness ==
    /\ Accepted
    /\ conv.stage = "decoded"
    /\ conv.descriptor = NestedDescriptor
    /\ Len(conv.value.v[2].v) = MaxLen

\* C6: a union encodes a value one of its alternatives accepts as [i, payload]
\* for the first alternative i that accepts it, with that alternative's
\* encoding as payload; decoding [i, x] is alternative i's decoding of x,
\* whatever the alternatives' validators say.
C6_FirstMatch ==
    conv.descriptor.kind = "OneOf" =>
        /\ (Encoded /\ Accepting(conv.descriptor, conv.value) # {}) =>
              LET i == First(Accepting(conv.descriptor, conv.value))
              IN conv.json = PyList(<<PyInt(i - 1),
                                      to_json(specification_for(conv.descriptor.of[i]),
                                              conv.value)>>)
        /\ (/\ conv.stage = "decoded"
            /\ conv.json.t = "list"
            /\ Len(conv.json.v) = 2
            /\ conv.json.v[1].t = "int"
            /\ conv.json.v[1].v \in 0..(Len(conv.descriptor.of) - 1)) =>
              conv.back = from_json(specification_for(conv.descriptor.of[conv.json.v[1].v + 1]),
                                    conv.json.v[2])

\* a value two alternatives accept, encoded and decoded
C6_Witness ==
    /\ conv.descriptor = OverlapDescriptor
    /\ conv.origin = "value"
    /\ conv.stage = "decoded"
    /\ Cardinality(Accepting(conv.descriptor, conv.value)) = 2
    /\ conv.json = PyList(<<PyInt(0), PyInt(0)>>)

\* C7: an enumerated choice encodes a value as the index of the first choice
\* equal to it and raises for a value that is no choice; it decodes an index
\* as the choice at that index. Of x, y, z: y encodes as 1 and 1 decodes as y.
C7_EnumeratedChoice ==
    conv.descriptor.kind = "SampledFrom" =>
        LET choices == conv.descriptor.of
            equal == {i \in DOMAIN choices : PyEq(choices[i], conv.value)}
        IN /\ Encoded =>
                 IF equal = {} THEN conv.json = Raise("ValueError")
                 ELSE conv.json = PyInt(First(equal) - 1)
           /\ (conv.stage = "decoded" /\ conv.json.t = "int"
                  /\ conv.json.v \in 0..(Len(choices) - 1)) =>
                 conv.back = choices[conv.json.v + 1]
           /\ (Encoded /\ conv.descriptor = SampleDescriptor /\ conv.value = PyStr("y")) =>
                 conv.json = PyInt(1)
           /\ (conv.stage = "decoded" /\ conv.descriptor = SampleDescriptor
                  /\ conv.json = PyInt(1)) =>
                 conv.back = PyStr("y")

\* a value that is not among the choices, encoded
C7_Witness ==
    /\ conv.descriptor = SampleDescriptor
    /\ Encoded
    /\ conv.value = PyStr("a")
    /\ IsRaise(conv.json)

\* C8: every converter built from the same set of keys, whatever order the
\* keys were supplied in, and every record equal to the one encoded, whatever
\* order it was built in, gives the same encoded array.
C8_CanonicalOrderStable ==
    (conv.descriptor.kind = "dict" /\ Accepted /\ Encoded) =>
        /\ \A d \in ConvDescriptors :
               Canonical(d) = Canonical(conv.descriptor) =>
                   to_json(specification_for(d), conv.value) = conv.json
        /\ \A v \in Instances(conv.descriptor) :
               PyEq(v, conv.value) => to_json(conv.converter, v) = conv.json

---------------------------------------------------------------------------
\* storage_for called by several callers at once: the lookup, the construction
\* and the insert of one call are separate steps, and the steps of different
\* calls interleave.
Callers == 1..NumCallers
\* the descriptors storage_for is called with: one record shape in two orders
ConcDescriptors == {RecordDescriptorAB, RecordDescriptorBA}
ConcKeys == {HashItAnyway(d) : d \in ConcDescriptors}
Idle == [descriptor |-> IntDescriptor, key |-> IntDescriptor, result |-> 0]
\* the callers inside a call of storage_for for this key
InFlight(pcs, locals, key) == {c \in Callers : pcs[c] # "idle" /\ locals[c].key = key}

ConcInit ==
    /\ table = <<>>
    /\ db_created = FALSE
    /\ storage_cache = <<>>
    /\ storages = <<>>
    /\ last = NoLast
    /\ pc = [c \in Callers |-> "idle"]
    /\ local = [c \in Callers |-> Idle]
    /\ conv = <<>>
    /\ settled = [k \in ConcKeys |-> 0]

\* key = HashItAnyway(descriptor)
Call(c, descriptor) ==
    /\ pc[c] = "idle"
    /\ pc' = [pc EXCEPT ![c] = "try"]
    /\ local' = [local EXCEPT ![c] = [descriptor |-> descriptor,
                                      key |-> HashItAnyway(descriptor), result |-> 0]]
    /\ UNCHANGED <<table, db_created, storage_cache, storages, last, conv, settled>>

\* try: return self.storage_cache[key] / except KeyError: pass
Try(c) ==
    /\ pc[c] = "try"
    /\ LET hit == storage_for_try(storage_cache, local[c].key)
       IN /\ pc' = [pc EXCEPT ![c] = IF hit # 0 THEN "return" ELSE "construct"]
          /\ local' = [local EXCEPT ![c].result = hit]
    /\ UNCHANGED <<table, db_created, storage_cache, storages, last, conv, settled>>

\* result = Storage(...)
Construct(c) ==
    /\ pc[c] = "construct"
    /\ storages' = Append(storages, NewStorage(local[c].descriptor))
    /\ local' = [local EXCEPT ![c].result = Len(storages) + 1]
    /\ pc' = [pc EXCEPT ![c] = "insert"]
    /\ UNCHANGED <<table, db_created, storage_cache, last, conv, settled>>

\* self.storage_cache[key] = result
Insert(c) ==
    /\ pc[c] = "insert"
    /\ storage_cache' = CachePut(storage_cache, local[c].key, local[c].result)
    /\ pc' = [pc EXCEPT ![c] = "return"]
    /\ UNCHANGED <<table, db_created, storages, last, local, conv, settled>>

\* return: the call is over; when it was the last one in flight for its key,
\* the history records the Storage the cache holds for the key
Return(c) ==
    /\ pc[c] = "return"
    /\ pc' = [pc EXCEPT ![c] = "idle"]
    /\ settled' = IF InFlight(pc', local, local[c].key) = {} /\ settled[local[c].key] = 0
                  THEN [settled EXCEPT ![local[c].key] =
                            CacheGet(storage_cache, local[c].key)]
                  ELSE settled
    /\ UNCHANGED <<table, db_created, storage_cache, storages, last, local, conv>>

ConcNext ==
    \E c \in Callers :
        \/ \E d \in ConcDescriptors : Call(c, d)
        \/ Try(c)
        \/ Construct(c)
        \/ Insert(c)
        \/ Return(c)

ConcSpec == ConcInit /\ [][ConcNext]_vars

\* C10: once the calls in flight for a key have all returned, the cache holds
\* one Storage for the key, it holds that Storage from then on, no later call
\* constructs another, and every later call returns it.
C10_Converges ==
    \A k \in ConcKeys :
        settled[k] # 0 =>
            /\ Cardinality({i \in DOMAIN storage_cache : storage_cache[i].key = k}) = 1
            /\ CacheGet(storage_cache, k) = settled[k]
            /\ \A c \in InFlight(pc, local, k) :
                  /\ pc[c] \in {"try", "return"}
                  /\ pc[c] = "return" => local[c].result = settled[k]

\* two Storages were constructed for one key, its calls all returned, and a
\* later call is returning the one the cache kept
C10_Witness ==
    \E k \in ConcKeys :
        /\ settled[k] # 0
        /\ Cardinality({i \in DOMAIN storages : storages[i].key = k}) > 1
        /\ \E c \in InFlight(pc, local, k) :
               pc[c] = "return" /\ local[c].result = settled[k]

====
